---- MODULE Spec2Model ----
(***************************************************************************)
(* Caching and aggregation pipeline of the figure-drawing scrapers:        *)
(*   scripts/scrapers/cache.py          ScraperCache, CacheEntry           *)
(*   scripts/scrapers/base.py           Event, BaseScraper                 *)
(*   scripts/scrapers/claude_scraper.py ClaudePlaywrightScraper            *)
(*   scripts/scrapers/eventbrite.py     EventbriteScraper                  *)
(*   scripts/scrapers/__init__.py       run_all_scrapers                   *)
(*                                                                         *)
(* Encodings.  Wall-clock time is an integer number of minutes; minute 0   *)
(* is midnight of day 2.  A date string "YYYY-MM-DD" is the integer day    *)
(* index (1, 2, ...) and the empty string is 0; a clock string "HH:MM" is  *)
(* an integer; so Python's text comparison of two such strings is the      *)
(* integer comparison.                                                      *)
(* Python's None is the value None (for dates and times) or NoneStr (for   *)
(* optional strings); every comparison that Python refuses on None is      *)
(* modelled as raising.                                                    *)
(***************************************************************************)
EXTENDS Integers, Sequences, FiniteSets, TLC

\* ---------------------------------------------------------------- bounds
\* number of entries of all_scrapers the model configures (a prefix)
NumSources == 2
\* longest list of records one fetch returns
MaxPayloadLen == 1
\* number of times the clock is advanced in one behaviour
MaxTicks == 2
\* number of durable writes that fail in one behaviour
MaxWriteFailures == 1
\* longest merged list the sort and the seen-set loop are applied to directly
MaxMergeLen == 3
\* longest payload in which sound and damaged records are mixed
MaxMixedLen == 2

\* ------------------------------------------------------- Python's None
None == -1
NoneStr == "<None>"
\* a key that is missing from a dict
Absent == "<absent>"
\* the empty string as a date: it sorts before every date
EmptyDate == 0

\* ------------------------------------------------------ static configuration
MinutesPerHour == 60
MinutesPerDay == 1440

SOURCE_TTLS ==
  [visarts |-> 24, studiotwothree |-> 24, vmfa |-> 48, eventbrite |-> 12,
   artspace |-> 24, artworks |-> 24, default |-> 12]

\* SOURCE_TTLS.get(source, SOURCE_TTLS["default"])
TtlHours(source) ==
  IF source \in DOMAIN SOURCE_TTLS THEN SOURCE_TTLS[source]
  ELSE SOURCE_TTLS["default"]

\* the keys of all_scrapers, in insertion order
all_scrapers == <<"visarts", "vmfa", "studiotwothree", "eventbrite">>

Min(a, b) == IF a < b THEN a ELSE b

\* the configured scrapers of the model: the first NumSources of them
ScraperIds == SubSeq(all_scrapers, 1, Min(NumSources, Len(all_scrapers)))

Range(seq) == {seq[i] : i \in 1..Len(seq)}

KnownSources == Range(ScraperIds)

\* source_url / default_location given by the create_*_scraper factories
SourceUrl(source) ==
  CASE source = "visarts" -> "https://www.visarts.org/classes/"
    [] source = "vmfa" -> "https://vmfa.museum/calendar/classes/"
    [] source = "studiotwothree" -> "https://www.studiotwothree.org/adult-workshops"
    [] OTHER -> "https://www.eventbrite.com/d/va--richmond/figure-drawing/"

DefaultLocation(source) ==
  CASE source = "visarts" -> "Visual Arts Center of Richmond"
    [] source = "vmfa" -> "VMFA Studio School"
    [] source = "studiotwothree" -> "Studio Two Three"
    [] OTHER -> ""

\* ------------------------------------------------------------ Event
\* datetime.now().strftime("%Y-%m-%d")
Today(now) == 2 + (now \div MinutesPerDay)

\* Event.is_future: self.date >= today; a date of None makes >= raise
IsFutureRaises(e) == e.date = None

\* the comparison made strict: an event dated today is dropped
IsFutureStrict(e, now) == e.date > Today(now)

IsFuture(e, now) == e.date >= Today(now)

\* [e for e in events if e.is_future()]
RECURSIVE FilterFuture(_, _)
FilterFuture(events, now) ==
  IF events = <<>> THEN <<>>
  ELSE IF IsFuture(Head(events), now)
       THEN <<Head(events)>> \o FilterFuture(Tail(events), now)
       ELSE FilterFuture(Tail(events), now)

AnyFutureRaises(events) == \E i \in 1..Len(events) : IsFutureRaises(events[i])

\* ------------------------------------------------------------ CacheEntry
\* the in-memory store is a dict: a function whose domain is its key set
EmptyCache == [k \in {} |-> 0]

\* an entry written without an etag is given one
NewEntryTagged(source, events, now, url, etag, last_modified) ==
  [source |-> source, events |-> events, scraped_at |-> now,
   etag |-> IF etag = NoneStr THEN "W/1" ELSE etag,
   last_modified |-> last_modified, url |-> url]

NewEntry(source, events, now, url, etag, last_modified) ==
  [source |-> source, events |-> events, scraped_at |-> now,
   etag |-> etag, last_modified |-> last_modified, url |-> url]

\* expired already at the moment the TTL is over
IsExpiredAtTtlEnd(entry, now) ==
  now >= entry.scraped_at + TtlHours(entry.source) * MinutesPerHour

\* CacheEntry.is_expired: datetime.now() > scraped_time + timedelta(hours=ttl)
IsExpired(entry, now) ==
  now > entry.scraped_at + TtlHours(entry.source) * MinutesPerHour

\* CacheEntry.age_minutes
AgeMinutes(entry, now) == now - entry.scraped_at

\* ------------------------------------------------------------ ScraperCache
\* the expiry test inverted: only an expired entry is a hit
CacheGetHitInverted(c, source, now) ==
  source \in DOMAIN c /\ IsExpired(c[source], now)

\* ScraperCache.get: the entry if present and not expired ("hit")
CacheGetHit(c, source, now) ==
  source \in DOMAIN c /\ ~IsExpired(c[source], now)

\* self.cache.cache.get(source): the raw lookup, expiry ignored
CacheGetRawHit(c, source) == source \in DOMAIN c

\* ScraperCache.get leaves the dict as it is, whatever it returns; here an
\* expired entry is evicted by the lookup
AfterGetEvicting(c, source, now) ==
  IF source \in DOMAIN c /\ IsExpired(c[source], now)
  THEN [k \in DOMAIN c \ {source} |-> c[k]]
  ELSE c

\* the dict after ScraperCache.get: no statement of get writes to it
AfterGet(c, source, now) == c

\* the headers taken from ScraperCache.get: none for an expired entry
HttpHeadersIfFresh(c, source, now) ==
  IF ~(source \in DOMAIN c /\ ~IsExpired(c[source], now)) THEN [h \in {} |-> ""]
  ELSE [h \in (IF c[source].etag \notin {NoneStr, ""} THEN {"If-None-Match"} ELSE {})
               \cup (IF c[source].last_modified \notin {NoneStr, ""}
                     THEN {"If-Modified-Since"} ELSE {})
          |-> IF h = "If-None-Match" THEN c[source].etag ELSE c[source].last_modified]

\* ScraperCache.get_http_headers: "if entry.etag" and "if entry.last_modified"
\* are false for None and for the empty string; now is not looked at
HttpHeaders(c, source, now) ==
  IF ~CacheGetRawHit(c, source) THEN [h \in {} |-> ""]
  ELSE [h \in (IF c[source].etag \notin {NoneStr, ""} THEN {"If-None-Match"} ELSE {})
               \cup (IF c[source].last_modified \notin {NoneStr, ""}
                     THEN {"If-Modified-Since"} ELSE {})
          |-> IF h = "If-None-Match" THEN c[source].etag ELSE c[source].last_modified]

\* ScraperCache.get_stats
GetStats(c, now) ==
  [total_sources |-> Cardinality(DOMAIN c),
   sources |-> [s \in DOMAIN c |->
                  [event_count |-> Len(c[s].events),
                   age_minutes |-> AgeMinutes(c[s], now),
                   expired |-> IsExpired(c[s], now),
                   has_etag |-> c[s].etag # NoneStr]]]

\* the new entry takes the validators of the old one where it has none
CachePutMerging(c, source, entry) ==
  [k \in DOMAIN c \cup {source} |->
     IF k # source THEN c[k]
     ELSE IF source \notin DOMAIN c THEN entry
     ELSE [entry EXCEPT
             !.etag = IF @ = NoneStr THEN c[source].etag ELSE @,
             !.last_modified = IF @ = NoneStr THEN c[source].last_modified ELSE @]]

\* self.cache[source] = CacheEntry(...): the in-memory part of ScraperCache.set
CachePut(c, source, entry) ==
  [k \in DOMAIN c \cup {source} |-> IF k = source THEN entry ELSE c[k]]

\* the deletion left out
CacheDelNothing(c, source) == c

\* del self.cache[source]
CacheDel(c, source) == [k \in DOMAIN c \ {source} |-> c[k]]

\* ------------------------------------------------------------ durable store
\* CACHE_FILE: missing, a complete document, or a document cut short
NoFile == [state |-> "missing", data |-> EmptyCache]

\* how one call of _save ends: the document is written; mkdir/open raises
\* before the file is touched; json.dump raises after open(.., "w") has
\* truncated the file
WriteOutcomes == {"ok", "open_fails", "dump_fails"}

\* the file is left as it was
SaveNothing(c, d, w) == d

\* ScraperCache._save: the file content after the call
Save(c, d, w) ==
  CASE w = "ok" -> [state |-> "complete", data |-> c]
    [] w = "open_fails" -> d
    [] OTHER -> [state |-> "partial", data |-> EmptyCache]

\* what CACHE_FILE may hold for one source besides an entry set() wrote: a
\* value that is no object, an object without "scraped_at", an object with a
\* key CacheEntry does not know, and an object whose "scraped_at" is null
BadEntryKinds == {"not_mapping", "missing_field", "unknown_field"}

BadEntry(kind) == [kind |-> kind]

NullTimeEntry(source) ==
  [source |-> source, events |-> <<>>, scraped_at |-> None,
   etag |-> NoneStr, last_modified |-> NoneStr, url |-> NoneStr]

\* CacheEntry(**entry_data) raises TypeError
EntryRaises(doc) == "kind" \in DOMAIN doc

\* the entry has the fields with the types set() gives them
WellTyped(doc) == ~EntryRaises(doc) /\ doc.scraped_at # None

\* CACHE_FILE as _load finds it, besides NoFile and a document _save wrote:
\* a file open() cannot read, bytes that are not UTF-8, and JSON that is no
\* object ("partial" is a truncated or empty document, no JSON at all)
UnreadableFile == [state |-> "unreadable", data |-> EmptyCache]
UndecodableFile == [state |-> "undecodable", data |-> EmptyCache]
TruncatedFile == [state |-> "partial", data |-> EmptyCache]
WrongShapeFile == [state |-> "wrong_shape", data |-> EmptyCache]

\* ScraperCache.__init__ and _load: how the constructor ends and the store
\* it leaves; only JSONDecodeError and TypeError are caught
Load(d) ==
  CASE d.state = "missing" -> [status |-> "returned", err |-> "none", cache |-> EmptyCache]
    [] d.state = "unreadable" -> [status |-> "raised", err |-> "OSError", cache |-> EmptyCache]
    [] d.state = "undecodable" ->
         [status |-> "raised", err |-> "UnicodeDecodeError", cache |-> EmptyCache]
    [] d.state = "partial" -> [status |-> "returned", err |-> "JSONDecodeError", cache |-> EmptyCache]
    [] d.state = "wrong_shape" ->
         [status |-> "raised", err |-> "AttributeError", cache |-> EmptyCache]
    [] OTHER ->
         IF \E s \in DOMAIN d.data : EntryRaises(d.data[s])
         THEN [status |-> "returned", err |-> "TypeError", cache |-> EmptyCache]
         ELSE [status |-> "returned", err |-> "none", cache |-> d.data]

\* ------------------------------------------------------------ Source Fetcher
\* what the claude subprocess gives ClaudePlaywrightScraper.scrape
RecDates == {None, 1, 2}
RecStarts == {None, 9}
RecTitles == {"Figure Drawing"}
RecLocations == {"Studio A"}

Records ==
  [title : RecTitles, date : RecDates, startTime : RecStarts,
   location : RecLocations]

RECURSIVE SeqsUpTo(_, _)
SeqsUpTo(S, n) ==
  IF n = 0 THEN {<<>>}
  ELSE LET shorter == SeqsUpTo(S, n - 1)
       IN shorter \cup {Append(q, x) : q \in {r \in shorter : Len(r) = n - 1}, x \in S}

Payloads == SeqsUpTo(Records, MaxPayloadLen)

FetchOutcomes ==
  {[kind |-> k, records |-> <<>>] : k \in {"timeout", "exit_nonzero", "no_json"}}
  \cup {[kind |-> "json", records |-> p] : p \in Payloads}

\* Event(source=..., title=data.get("title", ""), date=data.get("date", ""),
\*       start_time=data.get("startTime"), location=data.get("location", default))
\* followed, when the event is returned or cached, by Event.to_dict
RecordToEvent(source, data) ==
  [source |-> source,
   title |-> data.title,
   date |-> data.date,
   startTime |-> data.startTime,
   location |-> IF data.location = Absent THEN DefaultLocation(source)
                ELSE data.location]

\* an element of the JSON array that is no object (a string, a number, null)
NotARecord == [kind |-> "not_mapping"]

\* data.get exists: the element is a dict
IsMapping(data) == "title" \in DOMAIN data

\* payloads in which any element may be sound, have a null date, or be no object
MixedPayloads == SeqsUpTo(Records \cup {NotARecord}, MaxMixedLen)

MixedOutcomes == {[kind |-> "json", records |-> p] : p \in MixedPayloads}

\* ClaudePlaywrightScraper.scrape: every failure of the subprocess is caught
\* inside scrape and turned into the empty list; an empty JSON array is
\* "no valid JSON" as well; data.get on an element that is no dict raises
\* AttributeError inside the loop, which line 129 catches for the whole call
ClaudeScrape(source, out) ==
  IF out.kind = "json" /\ \A k \in 1..Len(out.records) : IsMapping(out.records[k])
  THEN [k \in 1..Len(out.records) |-> RecordToEvent(source, out.records[k])]
  ELSE <<>>

\* ------------------------------------------------------------ EventbriteScraper
\* a JSON-LD Event block: "name", "startDate" and the name of "location";
\* startDate is empty, a date, or a date and a time joined by "T"
NoTime == -2
LdNames == {"Figure Drawing Night", "Pottery"}
LdDates == {EmptyDate, 1, 2}
LdTimes == {NoTime, 9}
LdLocations == {"Studio A"}

LdRecords ==
  {r \in [name : LdNames, date : LdDates, time : LdTimes, location : LdLocations] :
     r.date = EmptyDate => r.time = NoTime}

\* parse_json_ld_event: date and start_time out of startDate
LdToEvent(source, data) ==
  [source |-> source,
   title |-> data.name,
   date |-> data.date,
   startTime |-> IF data.date = EmptyDate \/ data.time = NoTime THEN None ELSE data.time,
   location |-> data.location]

\* "figure" in title_lower or "life drawing" in title_lower or "drawing" in title_lower
MentionsDrawing(title) == title = "Figure Drawing Night"

\* what urlopen gives for one event page: an error, a 304, a page without an
\* Event block, or a page whose first Event block is the record
LinkPages ==
  {[kind |-> k, record |-> <<>>] : k \in {"error", "not_modified", "no_event"}}
  \cup {[kind |-> "event", record |-> r] : r \in LdRecords}

\* the search page: its Event blocks and the event pages it links to
Pages == [jsonld : SeqsUpTo(LdRecords, MaxPayloadLen), links : SeqsUpTo(LinkPages, MaxPayloadLen)]

EmptyPage == [jsonld |-> <<>>, links |-> <<>>]

\* what urlopen gives for the search page; BaseScraper.fetch turns a 304 into
\* a FetchResult with html="" and raises on every other error
HttpOutcomes ==
  {[kind |-> k, page |-> EmptyPage] : k \in {"not_modified", "http_error", "url_error"}}
  \cup {[kind |-> "ok", page |-> p] : p \in Pages}

\* parser.event_urls[:20]
MaxEventUrls == 20

\* EventbriteScraper._fetch_event_page for every link, None results dropped
RECURSIVE FetchEventPages(_, _)
FetchEventPages(source, links) ==
  IF links = <<>> THEN <<>>
  ELSE LET page == Head(links)
           rest == FetchEventPages(source, Tail(links))
       IN IF page.kind = "event" /\ MentionsDrawing(page.record.name)
          THEN <<LdToEvent(source, page.record)>> \o rest
          ELSE rest

\* BaseScraper.extract_json_ld_events
ExtractJsonLdEvents(source, jsonld, t) ==
  FilterFuture([k \in 1..Len(jsonld) |-> LdToEvent(source, jsonld[k])], t)

\* EventbriteScraper.scrape: an error of the search page is caught and gives
\* the empty list; a 304 is read as an empty page
EventbriteScrape(source, out, t) ==
  IF out.kind \in {"http_error", "url_error"} THEN <<>>
  ELSE LET page == IF out.kind = "not_modified" THEN EmptyPage ELSE out.page
           json_ld_events == ExtractJsonLdEvents(source, page.jsonld, t)
       IN IF json_ld_events # <<>> THEN json_ld_events
          ELSE FetchEventPages(source,
                 SubSeq(page.links, 1, Min(Len(page.links), MaxEventUrls)))

\* ------------------------------------------------------------ request headers
NoHeaders == [h \in {} |-> ""]

\* BaseScraper.fetch, lines 238-246: the conditional headers of the request
\* (User-Agent and Accept are on every request and left out)
FetchHeaders(c, source, use_cache_headers, now) ==
  IF use_cache_headers THEN HttpHeaders(c, source, now) ELSE NoHeaders

\* EventbriteScraper.scrape, line 58, and _fetch_event_page, line 88:
\* self.fetch(url, use_cache_headers=False)
EventbriteHeaders(c, source, now) == FetchHeaders(c, source, FALSE, now)

\* ClaudePlaywrightScraper.scrape never calls fetch: the claude subprocess
\* is given the prompt with the url and nothing of the store
ClaudeHeaders(c, source, now) == NoHeaders

\* ------------------------------------------------------------ BaseScraper.run
\* the stale lookup left out: the except branch returns the empty list
StaleEventsNone(c, source) == <<>>

\* lines 332-336: the events of whatever entry the store holds, or nothing
StaleEvents(c, source) ==
  IF CacheGetRawHit(c, source) THEN c[source].events ELSE <<>>

StaleTag(c, source) == IF CacheGetRawHit(c, source) THEN "stale" ELSE "empty"

\* lines 322-336, given the list scrape() returned: what run returns, the
\* store and the file it leaves, and the last line it prints.  The store is
\* assigned before _save is called, so the except branch of a failed write
\* finds the new entry.
RunFetch(c, d, now, source, events, w) ==
  LET future_events == FilterFuture(events, now)
      entry == NewEntry(source, future_events, now, SourceUrl(source), NoneStr, NoneStr)
      c_set == CachePut(c, source, entry)
  IN IF AnyFutureRaises(events)
     THEN [ret |-> StaleEvents(c, source), cache |-> c, disk |-> d, wrote |-> FALSE,
           log |-> [tag |-> StaleTag(c, source), err |-> "TypeError"]]
     ELSE IF w = "ok"
     THEN [ret |-> future_events, cache |-> c_set, disk |-> Save(c_set, d, w),
           wrote |-> TRUE, log |-> [tag |-> "found", err |-> "none"]]
     ELSE [ret |-> StaleEvents(c_set, source), cache |-> c_set,
           disk |-> Save(c_set, d, w), wrote |-> TRUE,
           log |-> [tag |-> StaleTag(c_set, source), err |-> "OSError"]]

\* ------------------------------------------------------------ merge
\* the comparison list.sort makes of two keys
\* (e.get("date", ""), e.get("startTime", "")): tuples compare on the first
\* position where they differ, and None against a string raises TypeError
KeyCompare(a, b) ==
  IF a.date # b.date
  THEN IF a.date = None \/ b.date = None THEN "raises"
       ELSE IF a.date < b.date THEN "lt" ELSE "gt"
  ELSE IF a.startTime # b.startTime
  THEN IF a.startTime = None \/ b.startTime = None THEN "raises"
       ELSE IF a.startTime < b.startTime THEN "lt" ELSE "gt"
  ELSE "eq"

\* list.sort raises exactly when some two keys of the list do not compare
SortRaises(events) ==
  \E m, n \in 1..Len(events) : KeyCompare(events[m], events[n]) = "raises"

\* insertion of e in front of the elements it is equal to: not stable
RECURSIVE InsertSortedBeforeEqual(_, _)
InsertSortedBeforeEqual(sorted, e) ==
  IF sorted = <<>> THEN <<e>>
  ELSE IF KeyCompare(e, Head(sorted)) \in {"lt", "eq"}
       THEN <<e>> \o sorted
       ELSE <<Head(sorted)>> \o InsertSortedBeforeEqual(Tail(sorted), e)

\* stable insertion of e behind every element that is not greater
RECURSIVE InsertSorted(_, _)
InsertSorted(sorted, e) ==
  IF sorted = <<>> THEN <<e>>
  ELSE IF KeyCompare(e, Head(sorted)) = "lt"
       THEN <<e>> \o sorted
       ELSE <<Head(sorted)>> \o InsertSorted(Tail(sorted), e)

\* all_events.sort(key=...): a stable sort
RECURSIVE SortEvents(_)
SortEvents(events) ==
  IF events = <<>> THEN <<>>
  ELSE InsertSorted(SortEvents(SubSeq(events, 1, Len(events) - 1)),
                    events[Len(events)])

\* key = (event.get("date"), event.get("location"), event.get("startTime"))
DedupKey(e) == <<e.date, e.location, e.startTime>>

\* the seen-set never filled: every event is kept
RECURSIVE DedupeKeepsAll(_, _)
DedupeKeepsAll(events, seen) ==
  IF events = <<>> THEN <<>>
  ELSE IF DedupKey(Head(events)) \in seen
       THEN DedupeKeepsAll(Tail(events), seen)
       ELSE <<Head(events)>> \o DedupeKeepsAll(Tail(events), seen)

\* the seen-set loop: the first event of every key is kept
RECURSIVE Dedupe(_, _)
Dedupe(events, seen) ==
  IF events = <<>> THEN <<>>
  ELSE IF DedupKey(Head(events)) \in seen
       THEN Dedupe(Tail(events), seen)
       ELSE <<Head(events)>> \o Dedupe(Tail(events), seen \cup {DedupKey(Head(events))})

\* lines 108-121 of run_all_scrapers
MergeEvents(events) ==
  IF SortRaises(events)
  THEN [status |-> "raised", err |-> "TypeError", events |-> <<>>]
  ELSE [status |-> "returned", err |-> "none", events |-> Dedupe(SortEvents(events), {})]

\* the event dicts a merged list is drawn from: two sources, each with a
\* title of its own, two dates, two locations, start time absent or present
MergeTitles == [visarts |-> "Figure Drawing", vmfa |-> "Life Drawing"]
MergeDates == {2, 3}
MergeLocations == {"Studio A", "Studio B"}

MergeInputs ==
  {[source |-> s, title |-> MergeTitles[s], date |-> d, startTime |-> t, location |-> l] :
     s \in DOMAIN MergeTitles, d \in MergeDates, t \in RecStarts, l \in MergeLocations}

\* ------------------------------------------------------------ arguments
\* the sources argument of run_all_scrapers: None, or a list of identifiers
RequestIds == KnownSources \cup {"nosuch"}

SourceArgs ==
  {[given |-> FALSE, list |-> <<>>]}
  \cup {[given |-> TRUE, list |-> l] : l \in {<<>>} \cup {<<a>> : a \in RequestIds}
          \cup {<<a, b>> : a \in RequestIds, b \in RequestIds}}

\* "if sources:" is false for None and for the empty list
ResolveScrapers(arg) ==
  IF arg.given /\ arg.list # <<>>
  THEN SelectSeq(ScraperIds, LAMBDA k : k \in Range(arg.list))
  ELSE ScraperIds

\* ------------------------------------------------------------ state
VARIABLES
  cache,            \* ScraperCache.cache of the singleton
  disk,             \* the content of CACHE_FILE
  now,              \* the wall clock, in minutes
  ticks,            \* how often the clock was advanced
  wfails,           \* how many calls of _save have failed
  pc,               \* where the call in progress stands
  mode,             \* the entry point of the call: "run_all" or "run"
  force_refresh,    \* run_all_scrapers: force_refresh
  scrapers_to_run,  \* run_all_scrapers: keys of scrapers_to_run, in order
  idx,              \* position of the loop that pc names
  scrapers_needed,  \* run_all_scrapers: keys of scrapers_needed, in order
  cached_events,    \* run_all_scrapers: cached_events
  all_events,       \* run_all_scrapers: all_events
  cur,              \* the source whose scraper is inside run()
  log,              \* per source, the last line the call printed about it
  fetched,          \* per source, the calls of scrape() in this call
  fetch_out,        \* what scrape() got from outside, if the last step called it
  held0,            \* per source, what the store held when the call began
  run_ret,          \* what the last call of run() returned
  ret               \* how the call ended, and what it returned

store == <<cache, disk, wfails>>
clock == <<now, ticks>>
control == <<pc, mode, force_refresh, scrapers_to_run, idx, scrapers_needed,
             cached_events, all_events, cur>>
observed == <<log, fetched, fetch_out, held0, run_ret, ret>>
vars == <<cache, disk, wfails, now, ticks, pc, mode, force_refresh,
          scrapers_to_run, idx, scrapers_needed, cached_events, all_events,
          cur, log, fetched, fetch_out, held0, run_ret, ret>>

NoLog == [tag |-> "unstarted", err |-> "none"]
NoRet == [status |-> "none", err |-> "none", events |-> <<>>]
NoFetch == [kind |-> "none", records |-> <<>>, headers |-> NoHeaders]
\* the sources a scraper exists for
ScraperSources == KnownSources \cup {"eventbrite"}
NoLogs == [s \in ScraperSources |-> NoLog]
NoFetches == [s \in ScraperSources |-> 0]
NoneHeld == [s \in ScraperSources |-> "absent"]

\* per source: no entry, an entry ScraperCache.get returns, or an expired one
Held(c, t) ==
  [s \in ScraperSources |->
     IF ~CacheGetRawHit(c, s) THEN "absent"
     ELSE IF IsExpired(c[s], t) THEN "expired" ELSE "fresh"]

\* nothing is in progress and nothing of an earlier call is kept
Idle ==
  /\ pc = "idle"
  /\ mode = "none"
  /\ force_refresh = FALSE
  /\ scrapers_to_run = <<>>
  /\ idx = 0
  /\ scrapers_needed = <<>>
  /\ cached_events = <<>>
  /\ all_events = <<>>
  /\ cur = "none"
  /\ log = NoLogs
  /\ fetched = NoFetches
  /\ fetch_out = NoFetch
  /\ held0 = NoneHeld
  /\ run_ret = <<>>
  /\ ret = NoRet

\* get_cache() on a machine without CACHE_FILE: _load finds no file
Init ==
  /\ cache = EmptyCache
  /\ disk = NoFile
  /\ now = 0
  /\ ticks = 0
  /\ wfails = 0
  /\ Idle

\* the files _load may find: none, a file it cannot read or decode, JSON
\* that is no object, and an object that holds for each of some sources an
\* entry set() could have written or one of the damaged ones
EntryDocs(source) ==
  {NewEntry(source, events, 0, SourceUrl(source), NoneStr, NoneStr) :
     events \in SeqsUpTo({[source |-> source, title |-> "Figure Drawing", date |-> 2,
                           startTime |-> 9, location |-> "Studio A"]}, MaxPayloadLen)}
  \cup {BadEntry(k) : k \in BadEntryKinds}
  \cup {NullTimeEntry(source)}

LoadSources == {"vmfa", "nosuch"}

ObjectFiles ==
  UNION {{[state |-> "complete", data |-> f] :
            f \in {g \in [S -> UNION {EntryDocs(s) : s \in S}] :
                     \A s \in S : g[s] \in EntryDocs(s)}} : S \in SUBSET LoadSources}

FileDocs ==
  {NoFile, UnreadableFile, UndecodableFile, TruncatedFile, WrongShapeFile}
  \cup ObjectFiles

\* ScraperCache() about to run _load (line 58) over any of these files
InitLoad ==
  /\ cache = EmptyCache
  /\ disk \in FileDocs
  /\ now = 0
  /\ ticks = 0
  /\ wfails = 0
  /\ pc = "load"
  /\ mode = "none"
  /\ force_refresh = FALSE
  /\ scrapers_to_run = <<>>
  /\ idx = 0
  /\ scrapers_needed = <<>>
  /\ cached_events = <<>>
  /\ all_events = <<>>
  /\ cur = "none"
  /\ log = NoLogs
  /\ fetched = NoFetches
  /\ fetch_out = NoFetch
  /\ held0 = NoneHeld
  /\ run_ret = <<>>
  /\ ret = NoRet

\* run_all_scrapers at line 108 with every source served from the store:
\* all_events is cached_events, any list of event dicts
InitMerge ==
  /\ cache = EmptyCache
  /\ disk = NoFile
  /\ now = 0
  /\ ticks = 0
  /\ wfails = 0
  /\ pc = "merge"
  /\ mode = "run_all"
  /\ force_refresh = FALSE
  /\ scrapers_to_run = <<>>
  /\ idx = 0
  /\ scrapers_needed = <<>>
  /\ cached_events \in SeqsUpTo(MergeInputs, MaxMergeLen)
  /\ all_events = cached_events
  /\ cur = "none"
  /\ log = NoLogs
  /\ fetched = NoFetches
  /\ fetch_out = NoFetch
  /\ held0 = NoneHeld
  /\ run_ret = <<>>
  /\ ret = NoRet

\* a call of _save may fail while the budget of failures lasts
CanWrite(w) == w \in WriteOutcomes /\ (w # "ok" => wfails < MaxWriteFailures)

\* ------------------------------------------------------------ clock
\* time passes between calls: a day and a minute at a time, which takes
\* an entry of a 24-hour source from fresh to expired
ClockStep == MinutesPerDay + 1

Advance ==
  /\ pc = "idle"
  /\ ticks < MaxTicks
  /\ now' = now + ClockStep
  /\ ticks' = ticks + 1
  /\ UNCHANGED <<store, control, observed>>

\* ------------------------------------------------------------ run_all_scrapers
\* lines 61-74: resolve scrapers_to_run; with force_refresh the invalidation
\* loop comes first
RunAllCall(force, arg) ==
  /\ pc = "idle"
  /\ mode' = "run_all"
  /\ force_refresh' = force
  /\ scrapers_to_run' = ResolveScrapers(arg)
  /\ pc' = IF scrapers_to_run' = <<>> THEN "merge"
           ELSE IF force THEN "invalidate" ELSE "partition"
  /\ idx' = IF scrapers_to_run' = <<>> THEN 0 ELSE 1
  /\ held0' = Held(cache, now)
  /\ UNCHANGED <<scrapers_needed, cached_events, all_events, cur>>
  /\ UNCHANGED <<store, clock, log, fetched, fetch_out, run_ret, ret>>

\* lines 69-70: cache.invalidate(source_id) for one working source; _save is
\* called only when an entry was deleted, and its failure leaves run_all
Invalidate(w) ==
  /\ pc = "invalidate"
  /\ LET source == scrapers_to_run[idx]
         last == idx = Len(scrapers_to_run)
     IN IF source \in DOMAIN cache
        THEN /\ CanWrite(w)
             /\ cache' = CacheDel(cache, source)
             /\ disk' = Save(cache', disk, w)
             /\ wfails' = IF w = "ok" THEN wfails ELSE wfails + 1
             /\ IF w = "ok"
                THEN /\ pc' = IF last THEN "partition" ELSE "invalidate"
                     /\ idx' = IF last THEN 1 ELSE idx + 1
                     /\ ret' = ret
                ELSE /\ pc' = "done"
                     /\ idx' = idx
                     /\ ret' = [status |-> "raised", err |-> "OSError", events |-> <<>>]
        ELSE /\ w = "ok"
             /\ pc' = IF last THEN "partition" ELSE "invalidate"
             /\ idx' = IF last THEN 1 ELSE idx + 1
             /\ UNCHANGED <<store, ret>>
  /\ UNCHANGED <<mode, force_refresh, scrapers_to_run, scrapers_needed,
                 cached_events, all_events, cur>>
  /\ UNCHANGED <<clock, log, fetched, fetch_out, held0, run_ret>>

\* lines 81-91: one round of the partition loop, and behind its last round
\* the choice between "all served from cache" and the scraping loop
Partition ==
  /\ pc = "partition"
  /\ LET source == scrapers_to_run[idx]
         last == idx = Len(scrapers_to_run)
         hit == CacheGetHit(cache, source, now) /\ ~force_refresh
     IN /\ cached_events' = IF hit THEN cached_events \o cache[source].events
                            ELSE cached_events
        /\ scrapers_needed' = IF hit THEN scrapers_needed
                              ELSE Append(scrapers_needed, source)
        /\ log' = IF hit THEN [log EXCEPT ![source] = [tag |-> "cache_hit", err |-> "none"]]
                  ELSE log
        /\ pc' = IF ~last THEN "partition"
                 ELSE IF scrapers_needed' = <<>> THEN "merge" ELSE "scrape"
        /\ idx' = IF ~last THEN idx + 1
                  ELSE IF scrapers_needed' = <<>> THEN 0 ELSE 1
        /\ all_events' = IF last /\ scrapers_needed' = <<>> THEN cached_events'
                         ELSE all_events
  /\ UNCHANGED <<mode, force_refresh, scrapers_to_run, cur>>
  /\ UNCHANGED <<store, clock, fetched, fetch_out, held0, run_ret, ret>>

\* ------------------------------------------------------------ BaseScraper.run
\* scraper.run() called directly on the scraper a factory made
RunCall(source) ==
  /\ pc = "idle"
  /\ source \in ScraperSources
  /\ mode' = "run"
  /\ cur' = source
  /\ pc' = "scrape"
  /\ held0' = Held(cache, now)
  /\ UNCHANGED <<force_refresh, scrapers_to_run, idx, scrapers_needed,
                 cached_events, all_events>>
  /\ UNCHANGED <<store, clock, log, fetched, fetch_out, run_ret, ret>>

\* the loop of line 97 walks scrapers_needed from its end
NextSourceReversed ==
  IF mode = "run" THEN cur ELSE scrapers_needed[Len(scrapers_needed) - idx + 1]

\* the loop of line 97 never leaves the first needed scraper
NextSourceFirst == IF mode = "run" THEN cur ELSE scrapers_needed[1]

\* the source of the scraper whose run() is entered next
NextSource == IF mode = "run" THEN cur ELSE scrapers_needed[idx]

\* line 106 left out: the cached events never reach all_events
AfterRunCachedLeftOut(events) ==
  IF mode = "run"
  THEN /\ pc' = "done"
       /\ ret' = [status |-> "returned", err |-> "none", events |-> events]
       /\ UNCHANGED <<idx, all_events>>
  ELSE /\ ret' = ret
       /\ IF idx < Len(scrapers_needed)
          THEN /\ pc' = "scrape"
               /\ idx' = idx + 1
               /\ all_events' = all_events \o events
          ELSE /\ pc' = "merge"
               /\ idx' = 0
               /\ all_events' = all_events \o events

\* run() has returned events: a direct call ends; run_all_scrapers extends
\* all_events (lines 100-101) and, behind the last scraper, adds the cached
\* events (line 106)
AfterRun(events) ==
  IF mode = "run"
  THEN /\ pc' = "done"
       /\ ret' = [status |-> "returned", err |-> "none", events |-> events]
       /\ UNCHANGED <<idx, all_events>>
  ELSE /\ ret' = ret
       /\ IF idx < Len(scrapers_needed)
          THEN /\ pc' = "scrape"
               /\ idx' = idx + 1
               /\ all_events' = all_events \o events
          ELSE /\ pc' = "merge"
               /\ idx' = 0
               /\ all_events' = (all_events \o events) \o cached_events

\* lines 314-319: get_cached_events; a fresh entry is returned at once,
\* otherwise the scraper goes on to scrape()
RunBegin ==
  /\ pc = "scrape"
  /\ LET source == NextSource
     IN IF CacheGetHit(cache, source, now)
        THEN /\ run_ret' = cache[source].events
             /\ log' = [log EXCEPT ![source] = [tag |-> "cache_hit", err |-> "none"]]
             /\ cur' = source
             /\ AfterRun(cache[source].events)
        ELSE /\ pc' = "fetching"
             /\ cur' = source
             /\ log' = [log EXCEPT ![source] = [tag |-> "scraping", err |-> "none"]]
             /\ UNCHANGED <<idx, all_events, run_ret, ret>>
  /\ UNCHANGED <<mode, force_refresh, scrapers_to_run, scrapers_needed, cached_events>>
  /\ fetch_out' = NoFetch
  /\ UNCHANGED <<store, clock, fetched, held0>>

\* lines 320-336: scrape() ends in one of its outcomes, then the filter, the
\* cache write and the return, or the except branch
RunEndWith(out, w) ==
  /\ pc = "fetching"
  /\ LET r == RunFetch(cache, disk, now, cur, ClaudeScrape(cur, out), w)
     IN /\ IF r.wrote THEN CanWrite(w) ELSE w = "ok"
        /\ cache' = r.cache
        /\ disk' = r.disk
        /\ wfails' = IF w = "ok" THEN wfails ELSE wfails + 1
        /\ log' = [log EXCEPT ![cur] = r.log]
        /\ run_ret' = r.ret
        /\ AfterRun(r.ret)
  /\ fetched' = [fetched EXCEPT ![cur] = @ + 1]
  /\ fetch_out' = [kind |-> out.kind, records |-> out.records,
                   headers |-> ClaudeHeaders(cache, cur, now)]
  /\ UNCHANGED <<mode, force_refresh, scrapers_to_run, scrapers_needed,
                 cached_events, cur, held0>>
  /\ UNCHANGED clock

\* scrape() of a ClaudePlaywrightScraper ends in one of its outcomes
RunEnd(out, w) ==
  /\ out \in FetchOutcomes
  /\ RunEndWith(out, w)

\* lines 320-336 for a payload of mixed records
RunEndMixed(out) ==
  /\ out \in MixedOutcomes
  /\ RunEndWith(out, "ok")

\* the same for the EventbriteScraper that eventbrite.create_scraper makes;
\* of the response its kind and the Event blocks of the search page are kept
EventbriteRunEnd(out) ==
  /\ pc = "fetching"
  /\ out \in HttpOutcomes
  /\ LET r == RunFetch(cache, disk, now, cur, EventbriteScrape(cur, out, now), "ok")
     IN /\ cache' = r.cache
        /\ disk' = r.disk
        /\ log' = [log EXCEPT ![cur] = r.log]
        /\ run_ret' = r.ret
        /\ AfterRun(r.ret)
  /\ fetched' = [fetched EXCEPT ![cur] = @ + 1]
  /\ fetch_out' = [kind |-> out.kind, records |-> out.page.jsonld,
                   headers |-> EventbriteHeaders(cache, cur, now)]
  /\ UNCHANGED <<mode, force_refresh, scrapers_to_run, scrapers_needed,
                 cached_events, cur, held0>>
  /\ UNCHANGED <<clock, wfails>>

\* lines 108-121: sort, deduplicate, return
Merge ==
  /\ pc = "merge"
  /\ ret' = MergeEvents(all_events)
  /\ pc' = "done"
  /\ UNCHANGED <<mode, force_refresh, scrapers_to_run, idx, scrapers_needed,
                 cached_events, all_events, cur>>
  /\ fetch_out' = NoFetch
  /\ UNCHANGED <<store, clock, log, fetched, held0, run_ret>>

\* lines 108-121 entered again with the list they returned
Remerge ==
  /\ pc = "done"
  /\ mode = "run_all"
  /\ ret.status = "returned"
  /\ all_events' = ret.events
  /\ mode' = "remerge"
  /\ pc' = "merge"
  /\ UNCHANGED <<force_refresh, scrapers_to_run, idx, scrapers_needed,
                 cached_events, cur>>
  /\ UNCHANGED <<store, clock, observed>>

\* the caller has the result; the locals of the call are gone
Return ==
  /\ pc = "done"
  /\ pc' = "idle"
  /\ mode' = "none"
  /\ force_refresh' = FALSE
  /\ scrapers_to_run' = <<>>
  /\ idx' = 0
  /\ scrapers_needed' = <<>>
  /\ cached_events' = <<>>
  /\ all_events' = <<>>
  /\ cur' = "none"
  /\ log' = NoLogs
  /\ fetched' = NoFetches
  /\ fetch_out' = NoFetch
  /\ held0' = NoneHeld
  /\ run_ret' = <<>>
  /\ ret' = NoRet
  /\ UNCHANGED <<store, clock>>

\* ------------------------------------------------------------ ScraperCache calls
\* the store used directly: a source with a TTL of its own and one that
\* SOURCE_TTLS does not list
StoreSources == {"vmfa", "nosuch"}

StoreEvent ==
  [source |-> "vmfa", title |-> "Figure Drawing", date |-> 2, startTime |-> 9,
   location |-> "Studio A"]

StoreEventLists == SeqsUpTo({StoreEvent}, MaxPayloadLen)

\* the clock moves by a minute or two, or to one minute before a TTL is over
StoreSteps == {1, 2} \cup {TtlHours(s) * MinutesPerHour - 1 : s \in StoreSources}

StoreTick(d) ==
  /\ pc = "idle"
  /\ d \in StoreSteps
  /\ ticks < MaxTicks
  /\ now' = now + d
  /\ ticks' = ticks + 1
  /\ mode' = "none"
  /\ cur' = "none"
  /\ ret' = NoRet
  /\ UNCHANGED <<store, pc, force_refresh, scrapers_to_run, idx, scrapers_needed,
                 cached_events, all_events, log, fetched, fetch_out, held0, run_ret>>

\* ScraperCache.set(source, events, url)
StoreSetWith(source, events, url, etag, last_modified) ==
  /\ pc = "idle"
  /\ source \in StoreSources
  /\ events \in StoreEventLists
  /\ cache' = CachePut(cache, source,
                       NewEntry(source, events, now, url, etag, last_modified))
  /\ disk' = Save(cache', disk, "ok")
  /\ mode' = "set"
  /\ cur' = source
  /\ ret' = NoRet
  /\ held0' = Held(cache, now)
  /\ UNCHANGED <<wfails, clock, pc, force_refresh, scrapers_to_run, idx,
                 scrapers_needed, cached_events, all_events, log, fetched,
                 fetch_out, run_ret>>

\* BaseScraper.save_to_cache as run() calls it: url given, no validators
StoreSet(source, events) ==
  StoreSetWith(source, events, SourceUrl(source), NoneStr, NoneStr)

\* BaseScraper.save_to_cache(events, etag, last_modified) called on the
\* scraper of a source: ScraperCache.set with the scraper's url
SaveToCache(source, events, etag, last_modified) ==
  /\ pc = "idle"
  /\ source \in ScraperSources
  /\ cache' = CachePut(cache, source,
                       NewEntry(source, events, now, SourceUrl(source), etag, last_modified))
  /\ disk' = Save(cache', disk, "ok")
  /\ mode' = "set"
  /\ cur' = source
  /\ ret' = NoRet
  /\ held0' = Held(cache, now)
  /\ UNCHANGED <<wfails, clock, pc, force_refresh, scrapers_to_run, idx,
                 scrapers_needed, cached_events, all_events, log, fetched,
                 fetch_out, run_ret>>

\* what a lookup gives its caller: the entry's events, or None
Looked(c, source, hit) ==
  IF hit THEN [status |-> "hit", err |-> "none", events |-> c[source].events]
  ELSE [status |-> "miss", err |-> "none", events |-> <<>>]

\* ScraperCache.get(source)
StoreGet(source) ==
  /\ pc = "idle"
  /\ source \in StoreSources
  /\ mode' = "get"
  /\ cur' = source
  /\ ret' = Looked(cache, source, CacheGetHit(cache, source, now))
  /\ cache' = AfterGet(cache, source, now)
  /\ UNCHANGED <<disk, wfails, clock, pc, force_refresh, scrapers_to_run, idx,
                 scrapers_needed, cached_events, all_events, log, fetched,
                 fetch_out, held0, run_ret>>

\* ScraperCache.cache.get(source), the raw lookup of BaseScraper.run
StoreGetRaw(source) ==
  /\ pc = "idle"
  /\ source \in StoreSources
  /\ mode' = "get_raw"
  /\ cur' = source
  /\ ret' = Looked(cache, source, CacheGetRawHit(cache, source))
  /\ UNCHANGED <<store, clock, pc, force_refresh, scrapers_to_run, idx,
                 scrapers_needed, cached_events, all_events, log, fetched,
                 fetch_out, held0, run_ret>>

\* the values a caller of set() passes for url (save_to_cache passes
\* source_url), etag and last_modified
StoreUrls(source) == {SourceUrl(source)}
Etags == {NoneStr, "W/1"}
LastModifieds == {NoneStr, "Sat, 01 Jun 2024 18:00:00 GMT"}

\* ScraperCache.invalidate(source): _save only when an entry was deleted
StoreInvalidate(source) ==
  /\ pc = "idle"
  /\ source \in StoreSources
  /\ cache' = IF source \in DOMAIN cache THEN CacheDel(cache, source) ELSE cache
  /\ disk' = IF source \in DOMAIN cache THEN Save(cache', disk, "ok") ELSE disk
  /\ mode' = "invalidate"
  /\ cur' = source
  /\ ret' = NoRet
  /\ held0' = Held(cache, now)
  /\ UNCHANGED <<wfails, clock, pc, force_refresh, scrapers_to_run, idx,
                 scrapers_needed, cached_events, all_events, log, fetched,
                 fetch_out, run_ret>>

\* ScraperCache.invalidate_all()
StoreInvalidateAll ==
  /\ pc = "idle"
  /\ cache' = EmptyCache
  /\ disk' = Save(cache', disk, "ok")
  /\ mode' = "invalidate_all"
  /\ cur' = "none"
  /\ ret' = NoRet
  /\ held0' = Held(cache, now)
  /\ UNCHANGED <<wfails, clock, pc, force_refresh, scrapers_to_run, idx,
                 scrapers_needed, cached_events, all_events, log, fetched,
                 fetch_out, run_ret>>

\* ScraperCache.get_http_headers(source)
StoreHeaders(source) ==
  /\ pc = "idle"
  /\ source \in StoreSources
  /\ mode' = "headers"
  /\ cur' = source
  /\ ret' = [status |-> "returned", err |-> "none", events |-> <<>>,
             headers |-> HttpHeaders(cache, source, now)]
  /\ UNCHANGED <<store, clock, pc, force_refresh, scrapers_to_run, idx,
                 scrapers_needed, cached_events, all_events, log, fetched,
                 fetch_out, held0, run_ret>>

\* ScraperCache.get_stats()
StoreStats ==
  /\ pc = "idle"
  /\ mode' = "stats"
  /\ cur' = "none"
  /\ ret' = [status |-> "returned", err |-> "none", events |-> <<>>,
             stats |-> GetStats(cache, now)]
  /\ UNCHANGED <<store, clock, pc, force_refresh, scrapers_to_run, idx,
                 scrapers_needed, cached_events, all_events, log, fetched,
                 fetch_out, held0, run_ret>>

\* a new process: ScraperCache() built over CACHE_FILE as the last one left it
StoreReload ==
  /\ pc = "idle"
  /\ cache' = Load(disk).cache
  /\ mode' = "load"
  /\ cur' = "none"
  /\ ret' = [status |-> Load(disk).status, err |-> Load(disk).err, events |-> <<>>]
  /\ UNCHANGED <<disk, wfails, clock, pc, force_refresh, scrapers_to_run, idx,
                 scrapers_needed, cached_events, all_events, log, fetched,
                 fetch_out, held0, run_ret>>

\* the process dies inside the _save of set(source, events, url): w tells how
\* far _save got (before open, after open truncated the file, after dump)
StoreCrashInSet(source, events, w) ==
  /\ pc = "idle"
  /\ source \in StoreSources
  /\ events \in StoreEventLists
  /\ w \in WriteOutcomes
  /\ cache' = CachePut(cache, source,
                       NewEntry(source, events, now, SourceUrl(source), NoneStr, NoneStr))
  /\ disk' = Save(cache', disk, w)
  /\ pc' = "crashed"
  /\ mode' = "set"
  /\ cur' = source
  /\ ret' = NoRet
  /\ held0' = Held(cache, now)
  /\ UNCHANGED <<wfails, clock, force_refresh, scrapers_to_run, idx,
                 scrapers_needed, cached_events, all_events, log, fetched,
                 fetch_out, run_ret>>

\* the process dies inside the _save of invalidate(source), which is reached
\* only when the source has an entry
StoreCrashInInvalidate(source, w) ==
  /\ pc = "idle"
  /\ source \in DOMAIN cache
  /\ w \in WriteOutcomes
  /\ cache' = CacheDel(cache, source)
  /\ disk' = Save(cache', disk, w)
  /\ pc' = "crashed"
  /\ mode' = "invalidate"
  /\ cur' = source
  /\ ret' = NoRet
  /\ held0' = Held(cache, now)
  /\ UNCHANGED <<wfails, clock, force_refresh, scrapers_to_run, idx,
                 scrapers_needed, cached_events, all_events, log, fetched,
                 fetch_out, run_ret>>

\* the next process builds its ScraperCache over the file the crash left
StoreRestart ==
  /\ pc = "crashed"
  /\ Load(disk).status = "returned"
  /\ cache' = Load(disk).cache
  /\ pc' = "idle"
  /\ mode' = "load"
  /\ cur' = "none"
  /\ ret' = [status |-> Load(disk).status, err |-> Load(disk).err, events |-> <<>>]
  /\ UNCHANGED <<disk, wfails, clock, force_refresh, scrapers_to_run, idx,
                 scrapers_needed, cached_events, all_events, log, fetched,
                 fetch_out, held0, run_ret>>

\* ScraperCache._load, and with it the constructor, ends
Construct ==
  /\ pc = "load"
  /\ cache' = Load(disk).cache
  /\ pc' = "idle"
  /\ mode' = "load"
  /\ ret' = [status |-> Load(disk).status, err |-> Load(disk).err, events |-> <<>>]
  /\ UNCHANGED <<disk, wfails, clock, force_refresh, scrapers_to_run, idx,
                 scrapers_needed, cached_events, all_events, cur, log, fetched,
                 fetch_out, held0, run_ret>>

\* run_all_scrapers called again and again, every durable write succeeding
Next ==
  \/ Advance
  \/ \E force \in BOOLEAN, arg \in SourceArgs : RunAllCall(force, arg)
  \/ Invalidate("ok")
  \/ Partition
  \/ RunBegin
  \/ \E out \in FetchOutcomes : RunEnd(out, "ok")
  \/ Merge
  \/ Return

Spec == Init /\ [][Next]_vars

\* run() of one scraper called again and again, every durable write succeeding
NextRun ==
  \/ Advance
  \/ \E source \in KnownSources : RunCall(source)
  \/ RunBegin
  \/ \E out \in FetchOutcomes : RunEnd(out, "ok")
  \/ Return

SpecRun == Init /\ [][NextRun]_vars

\* run() of the EventbriteScraper called again and again
NextEventbrite ==
  \/ Advance
  \/ RunCall("eventbrite")
  \/ RunBegin
  \/ \E out \in HttpOutcomes : EventbriteRunEnd(out)
  \/ Return

SpecEventbrite == Init /\ [][NextEventbrite]_vars

\* the calls at one instant, on a disk whose writes may fail
NextFaulty ==
  \/ \E force \in BOOLEAN, arg \in SourceArgs : RunAllCall(force, arg)
  \/ \E w \in WriteOutcomes : Invalidate(w)
  \/ Partition
  \/ \E source \in KnownSources : RunCall(source)
  \/ RunBegin
  \/ \E out \in FetchOutcomes, w \in WriteOutcomes : RunEnd(out, w)
  \/ Merge
  \/ Return

SpecFaulty == Init /\ [][NextFaulty]_vars

\* run() of one scraper on payloads of sound and damaged records
NextPayload ==
  \/ \E source \in KnownSources : RunCall(source)
  \/ RunBegin
  \/ \E out \in MixedOutcomes : RunEndMixed(out)
  \/ Return

SpecPayload == Init /\ [][NextPayload]_vars

\* the scrapers of two kinds run on a store whose entries may carry validators
ValidatedSources == {"vmfa", "eventbrite"}

NextConditional ==
  \/ Advance
  \/ \E source \in ValidatedSources, etag \in Etags, last_modified \in LastModifieds :
       SaveToCache(source, <<>>, etag, last_modified)
  \/ \E source \in ValidatedSources : RunCall(source)
  \/ RunBegin
  \/ \E out \in FetchOutcomes : cur # "eventbrite" /\ RunEnd(out, "ok")
  \/ \E out \in HttpOutcomes : cur = "eventbrite" /\ EventbriteRunEnd(out)
  \/ Return

SpecConditional == Init /\ [][NextConditional]_vars

\* the sort and the seen-set loop on any merged list, and on their own output
NextMerge ==
  \/ Merge
  \/ Remerge

SpecMerge == InitMerge /\ [][NextMerge]_vars

\* every method of ScraperCache called in any order, the clock moving a day
\* and a minute at a time
NextApi ==
  \/ Advance
  \/ \E source \in StoreSources, events \in StoreEventLists,
        etag \in Etags, last_modified \in LastModifieds :
          \E url \in StoreUrls(source) :
            StoreSetWith(source, events, url, etag, last_modified)
  \/ \E source \in StoreSources : StoreInvalidate(source)
  \/ StoreInvalidateAll
  \/ \E source \in StoreSources : StoreGet(source)
  \/ \E source \in StoreSources : StoreGetRaw(source)
  \/ \E source \in StoreSources : StoreHeaders(source)
  \/ StoreStats
  \/ StoreReload

SpecApi == Init /\ [][NextApi]_vars

\* set alone, with every choice of validators, as the clock moves
NextSet ==
  \/ Advance
  \/ \E source \in StoreSources, events \in StoreEventLists,
        etag \in Etags, last_modified \in LastModifieds :
          \E url \in StoreUrls(source) :
            StoreSetWith(source, events, url, etag, last_modified)

SpecSet == Init /\ [][NextSet]_vars

\* set and invalidate, some of them cut short by the death of the process
NextCrash ==
  \/ \E source \in StoreSources, events \in StoreEventLists : StoreSet(source, events)
  \/ \E source \in StoreSources : StoreInvalidate(source)
  \/ \E source \in StoreSources, events \in StoreEventLists, w \in WriteOutcomes :
       StoreCrashInSet(source, events, w)
  \/ \E source \in StoreSources, w \in WriteOutcomes : StoreCrashInInvalidate(source, w)
  \/ StoreRestart

SpecCrash == Init /\ [][NextCrash]_vars

\* the constructor over any file
NextLoad == Construct

SpecLoad == InitLoad /\ [][NextLoad]_vars

\* the calls of ScraperCache, the clock moving in between
NextStore ==
  \/ \E d \in StoreSteps : StoreTick(d)
  \/ \E source \in StoreSources, events \in StoreEventLists : StoreSet(source, events)
  \/ \E source \in StoreSources : StoreGet(source)
  \/ \E source \in StoreSources : StoreGetRaw(source)

SpecStore == Init /\ [][NextStore]_vars

\* ------------------------------------------------------------ properties
\* the step in which a call of scrape() ends and run() finishes
RunEnds == pc = "fetching" /\ pc' # "fetching"

\* the instant the entry of a source stops being fresh
ExpiresAt(entry) == entry.scraped_at + TtlHours(entry.source) * MinutesPerHour

FailedFetchKeepsEntry ==
  [][(RunEnds /\ fetch_out'.kind \in {"timeout", "exit_nonzero", "no_json"}
        /\ cur \in DOMAIN cache)
       => /\ run_ret' = cache[cur].events
          /\ cur \in DOMAIN cache'
          /\ cache'[cur].events = cache[cur].events]_vars

\* C3: when the fetch of a source reports "not modified", the entry of the
\* source keeps its events and gets the time of the run as its timestamp.
NotModifiedKeepsPayload ==
  [][(RunEnds /\ fetch_out'.kind = "not_modified" /\ cur \in DOMAIN cache)
       => /\ cur \in DOMAIN cache'
          /\ cache'[cur].events = cache[cur].events
          /\ cache'[cur].scraped_at = now]_vars

\* C5: run_all_scrapers never ends by raising while every durable write
\* succeeds.
RunAllNeverRaises ==
  (mode = "run_all" /\ pc = "done") => ret.status = "returned"

\* C6: run() on a source whose entry is fresh returns the events of the
\* entry, does not call scrape(), and leaves store and file unchanged.
FreshEntryServedWithoutFetch ==
  [][(pc = "scrape" /\ NextSource \in DOMAIN cache
        /\ now <= ExpiresAt(cache[NextSource]))
       => /\ run_ret' = cache[NextSource].events
          /\ pc' # "fetching"
          /\ fetched' = fetched
          /\ cache' = cache
          /\ disk' = disk
          /\ (mode = "run" => ret' = [status |-> "returned", err |-> "none",
                                      events |-> cache[NextSource].events])]_vars

\* a direct run() was answered from a fresh entry holding events
FreshEntryServed ==
  /\ pc = "done"
  /\ mode = "run"
  /\ log[cur].tag = "cache_hit"
  /\ fetched[cur] = 0
  /\ cur \in DOMAIN cache
  /\ now <= ExpiresAt(cache[cur])
  /\ Len(cache[cur].events) > 0
  /\ ret.events = cache[cur].events

\* C7: a lookup of an entry written at time T for a source with a TTL of H
\* hours gives the entry at every time up to and including T+H and nothing
\* after it; the raw lookup gives the entry at any time.
TtlBoundary ==
  (mode \in {"get", "get_raw"} /\ cur \in DOMAIN cache) =>
    /\ (mode = "get" /\ now <= ExpiresAt(cache[cur]))
         => (ret.status = "hit" /\ ret.events = cache[cur].events)
    /\ (mode = "get" /\ now > ExpiresAt(cache[cur])) => ret.status = "miss"
    /\ mode = "get_raw" => (ret.status = "hit" /\ ret.events = cache[cur].events)

\* an entry of a source without a TTL of its own was looked up exactly at T+H
LookupAtTtlEnd ==
  /\ mode = "get"
  /\ cur = "nosuch"
  /\ cur \in DOMAIN cache
  /\ now = cache[cur].scraped_at + SOURCE_TTLS["default"] * MinutesPerHour
  /\ ret.status = "hit"

\* C8: in run_all_scrapers with force_refresh no working source has an entry
\* when the partition loop runs, every working source is put in
\* scrapers_needed, scrape() is called once for each of them, and the
\* entries of the sources outside the working set stay as the call found
\* them.
ForceRefreshBypassesTtl ==
  /\ [](mode = "run_all" /\ force_refresh =>
         /\ pc = "partition" => \A s \in Range(scrapers_to_run) : s \notin DOMAIN cache
         /\ pc \in {"scrape", "fetching"} => scrapers_needed = scrapers_to_run
         /\ (pc \in {"merge", "done"} /\ scrapers_to_run # <<>>) =>
              /\ scrapers_needed = scrapers_to_run
              /\ \A s \in Range(scrapers_to_run) : fetched[s] = 1)
  /\ [][(mode' = "run_all" /\ force_refresh')
          => \A s \in DOMAIN cache \ Range(scrapers_to_run') :
               s \in DOMAIN cache' /\ cache'[s] = cache[s]]_vars

\* a forced call has fetched a source whose entry was fresh when the call
\* began, and the entry of a source it was not asked for is still there
ForcedFetchOfFreshSource ==
  /\ mode = "run_all"
  /\ force_refresh
  /\ pc = "done"
  /\ \E s \in Range(scrapers_to_run) : held0[s] = "fresh" /\ fetched[s] = 1
  /\ \E s \in DOMAIN cache : s \notin Range(scrapers_to_run) /\ held0[s] # "absent"

\* C9: when scrape() returns the records of a payload, all of them dated,
\* run keeps the events dated today or later, in payload order, stores
\* exactly that list under the current time, and returns it.
FetchSuccessStoresFuture ==
  [][(RunEnds /\ fetch_out'.kind = "json"
        /\ \A k \in 1..Len(fetch_out'.records) : fetch_out'.records[k].date # None)
       => LET kept == SelectSeq(fetch_out'.records, LAMBDA r : r.date >= Today(now))
          IN /\ log'[cur] = [tag |-> "found", err |-> "none"]
             /\ Len(run_ret') = Len(kept)
             /\ \A k \in 1..Len(kept) :
                  /\ run_ret'[k].source = cur
                  /\ run_ret'[k].title = kept[k].title
                  /\ run_ret'[k].date = kept[k].date
                  /\ run_ret'[k].startTime = kept[k].startTime
                  /\ run_ret'[k].location = kept[k].location
             /\ cur \in DOMAIN cache'
             /\ cache'[cur].events = run_ret'
             /\ cache'[cur].scraped_at = now
             /\ \A s \in DOMAIN cache \ {cur} : s \in DOMAIN cache' /\ cache'[s] = cache[s]]_vars

\* a payload whose last record is dated today was kept and stored
TodaysEventStored ==
  /\ fetch_out.kind = "json"
  /\ fetch_out.records # <<>>
  /\ fetch_out.records[Len(fetch_out.records)].date = Today(now)
  /\ log[cur].tag = "found"
  /\ run_ret # <<>>
  /\ run_ret[Len(run_ret)].date = Today(now)
  /\ cache[cur].events = run_ret
  /\ cache[cur].scraped_at = now

\* a before b in the order by (date, start time), an absent start time
\* before every present one
KeyBefore(a, b) ==
  \/ a.date < b.date
  \/ /\ a.date = b.date
     /\ \/ a.startTime = b.startTime
        \/ a.startTime = None
        \/ (b.startTime # None /\ a.startTime < b.startTime)

\* C10: run_all_scrapers returns a list ordered by (date, start time), an
\* absent start time first, whatever events were merged.
MergedListOrdered ==
  (mode = "run_all" /\ pc = "done") =>
    /\ ret.status = "returned"
    /\ \A m, n \in 1..Len(ret.events) : m < n => KeyBefore(ret.events[m], ret.events[n])

\* the file agrees with the store on every entry the store holds
EveryEntryDurable ==
  \A s \in DOMAIN cache :
    disk.state = "complete" /\ s \in DOMAIN disk.data /\ disk.data[s] = cache[s]

\* the positions of events whose key (date, location, start time) is k
KeyPositions(events, k) ==
  {i \in 1..Len(events) :
     <<events[i].date, events[i].location, events[i].startTime>> = k}

\* C11: the list run_all_scrapers returns holds no two events of the same
\* (date, location, start time), and for every key of the merged input it
\* holds exactly the first event of that key in sorted order.
DedupKeepsFirstOfKey ==
  (mode = "run_all" /\ pc = "done" /\ ret.status = "returned") =>
    LET sorted == SortEvents(all_events)
        keys == {<<e.date, e.location, e.startTime>> : e \in Range(all_events)}
    IN /\ \A m, n \in 1..Len(ret.events) :
            (ret.events[m].date = ret.events[n].date
               /\ ret.events[m].location = ret.events[n].location
               /\ ret.events[m].startTime = ret.events[n].startTime) => m = n
       /\ \A k \in keys :
            /\ Cardinality(KeyPositions(ret.events, k)) = 1
            /\ \A i \in KeyPositions(ret.events, k) :
                 \A j \in KeyPositions(sorted, k) :
                   (\A h \in KeyPositions(sorted, k) : j <= h) => ret.events[i] = sorted[j]
       /\ Len(ret.events) = Cardinality(keys)

\* events of two sources with different titles and one key were merged and
\* the one that sorts first is the only one returned
CollidingEventsCollapsed ==
  /\ mode = "run_all"
  /\ pc = "done"
  /\ ret.status = "returned"
  /\ Len(all_events) = 3
  /\ Len(ret.events) = 2
  /\ \E m, n \in 1..Len(all_events) :
       /\ m < n
       /\ all_events[m].source # all_events[n].source
       /\ all_events[m].title # all_events[n].title
       /\ all_events[m].date = all_events[n].date
       /\ all_events[m].location = all_events[n].location
       /\ all_events[m].startTime = all_events[n].startTime
       /\ all_events[m].startTime # None
       /\ all_events[m] \in Range(ret.events)
       /\ all_events[n] \notin Range(ret.events)

\* C12: lines 108-121 applied to the list they returned return that list
\* again, the same events in the same order.
MergeIdempotent ==
  (mode = "remerge" /\ pc = "done") =>
    (ret.status = "returned" /\ ret.events = all_events)

\* a list that the first pass reordered and shortened went through a second
\* pass, and events of one sort key but two locations kept their order
SecondPassSameList ==
  /\ mode = "remerge"
  /\ pc = "done"
  /\ Len(cached_events) = 3
  /\ Len(all_events) = 2
  /\ all_events[1] = cached_events[3]
  /\ all_events[1].date = all_events[2].date
  /\ all_events[1].startTime = all_events[2].startTime
  /\ all_events[1].location # all_events[2].location
  /\ ret.events = all_events

\* what run_all_scrapers merges when it serves every one of ids from the
\* store c: the events of the entries, in the order of ids
RECURSIVE ServedFromStore(_, _)
ServedFromStore(ids, c) ==
  IF ids = <<>> THEN <<>>
  ELSE c[Head(ids)].events \o ServedFromStore(Tail(ids), c)

\* C13: the list run_all_scrapers returns depends only on the event list
\* every working source contributes: a call that ends with every working
\* source fresh in the store returns what the next call, which serves the
\* same lists from the store, returns.
MergeIndependentOfPartition ==
  (mode = "run_all" /\ pc = "done" /\ ret.status = "returned"
     /\ \A s \in Range(scrapers_to_run) :
          CacheGetHit(cache, s, now) /\ log[s].tag \in {"cache_hit", "found"})
    => ret.events = MergeEvents(ServedFromStore(scrapers_to_run, cache)).events

\* C14: set(source, events, url, etag, last_modified) leaves under source an
\* entry of exactly the events, url, etag and last_modified it was given
\* (None where none was given, whatever the entry before held) stamped with
\* the time of the call, and leaves every other entry as it was.
SetReplacesEntry ==
  [][mode' = "set" =>
       \A source \in {cur'}, events \in StoreEventLists,
          etag \in Etags, last_modified \in LastModifieds :
         \A url \in StoreUrls(source) :
           StoreSetWith(source, events, url, etag, last_modified)
             => /\ DOMAIN cache' = DOMAIN cache \cup {source}
                /\ cache'[source] =
                     [source |-> source, events |-> events, scraped_at |-> now,
                      etag |-> etag, last_modified |-> last_modified, url |-> url]
                /\ \A s \in DOMAIN cache \ {source} : cache'[s] = cache[s]]_vars

\* set without validators was called later for a source that held an entry,
\* next to another source's entry that has both validators
EntryReplacedWithoutValidators ==
  /\ mode = "set"
  /\ cur = "vmfa"
  /\ held0["vmfa"] # "absent"
  /\ now > 0
  /\ cache["vmfa"].scraped_at = now
  /\ cache["vmfa"].etag = NoneStr
  /\ cache["vmfa"].last_modified = NoneStr
  /\ "nosuch" \in DOMAIN cache
  /\ cache["nosuch"].etag # NoneStr
  /\ cache["nosuch"].last_modified # NoneStr
  /\ cache["nosuch"].scraped_at = 0

\* C15: between the calls of set, invalidate and invalidate_all, made in any
\* order on a store built where no file was, the file holds what the store
\* holds (no file counting as no entries).
StoreAgreesWithFile ==
  pc = "idle" =>
    IF disk.state = "missing" THEN cache = EmptyCache
    ELSE disk.state = "complete" /\ disk.data = cache

\* two entries were set and both are in the file
TwoEntriesOnFile ==
  /\ mode = "set"
  /\ DOMAIN cache = StoreSources
  /\ disk.state = "complete"
  /\ disk.data = cache
  /\ \E s \in StoreSources : cache[s].scraped_at < now

\* C16: a process dying inside the _save of set or invalidate leaves the
\* file either as it was or holding the complete new content, and the store
\* built afterwards loads a complete document.
CrashKeepsFileWhole ==
  /\ [][pc' = "crashed"
         => (disk' = disk \/ (disk'.state = "complete" /\ disk'.data = cache'))]_vars
  /\ [](mode = "load" => ret.err = "none")

\* a file _save could have written, or none
SoundFile(d) ==
  \/ d.state = "missing"
  \/ d.state = "complete" /\ \A s \in DOMAIN d.data : WellTyped(d.data[s])

\* C17: the constructor over a file that is unreadable, no JSON, JSON of the
\* wrong shape, or holds an entry with wrong or missing fields returns, and
\* the store it leaves has no entry.
LoadRecoversFromBadFile ==
  (pc = "idle" /\ mode = "load" /\ ~SoundFile(disk)) =>
    (ret.status = "returned" /\ cache = EmptyCache)

\* C18: get, the raw lookup, get_http_headers and get_stats leave every
\* entry and the file as they were; an expired entry stays in the store.
ReadsLeaveStore ==
  [][mode' \in {"get", "get_raw", "headers", "stats"}
       => (cache' = cache /\ disk' = disk)]_vars

\* get reported an expired entry as absent and the entry is still held
ExpiredEntryStillHeld ==
  /\ mode = "get"
  /\ ret.status = "miss"
  /\ cur \in DOMAIN cache
  /\ now > ExpiresAt(cache[cur])
  /\ Len(cache[cur].events) > 0
  /\ disk.data = cache

\* C19: invalidate(source) removes the entry of source if there is one and
\* changes nothing if there is none, every other entry staying as it was;
\* invalidate_all leaves no entry; afterwards get and the raw lookup find
\* nothing for the source and the file holds what the store holds.
InvalidateRemoves ==
  [][/\ mode' = "invalidate" =>
          /\ DOMAIN cache' = DOMAIN cache \ {cur'}
          /\ \A s \in DOMAIN cache' : cache'[s] = cache[s]
          /\ Looked(cache', cur', CacheGetHit(cache', cur', now')).status = "miss"
          /\ Looked(cache', cur', CacheGetRawHit(cache', cur')).status = "miss"
          /\ cur' \in DOMAIN cache => (disk'.state = "complete" /\ disk'.data = cache')
          /\ cur' \notin DOMAIN cache => disk' = disk
     /\ mode' = "invalidate_all" =>
          /\ cache' = EmptyCache
          /\ disk'.state = "complete"
          /\ disk'.data = EmptyCache]_vars

\* one of two entries was invalidated; the other is in the store and the file
OneOfTwoInvalidated ==
  /\ mode = "invalidate"
  /\ cur = "vmfa"
  /\ held0["vmfa"] # "absent"
  /\ "vmfa" \notin DOMAIN cache
  /\ "nosuch" \in DOMAIN cache
  /\ disk.state = "complete"
  /\ "vmfa" \notin DOMAIN disk.data
  /\ disk.data = cache

\* C20: get_http_headers(source) holds If-None-Match, with the entry's etag,
\* exactly when the store has an entry of source with an etag, and
\* If-Modified-Since, with the entry's last_modified, exactly when it has
\* one with a last_modified, expired or not; it holds nothing else.
ConditionalHeaders ==
  mode = "headers" =>
    LET h == ret.headers
        has == cur \in DOMAIN cache
    IN /\ DOMAIN h \subseteq {"If-None-Match", "If-Modified-Since"}
       /\ "If-None-Match" \in DOMAIN h <=> (has /\ cache[cur].etag # NoneStr)
       /\ "If-Modified-Since" \in DOMAIN h <=> (has /\ cache[cur].last_modified # NoneStr)
       /\ "If-None-Match" \in DOMAIN h => h["If-None-Match"] = cache[cur].etag
       /\ "If-Modified-Since" \in DOMAIN h
            => h["If-Modified-Since"] = cache[cur].last_modified

\* the headers of an expired entry that has an etag and no last_modified
HeadersOfExpiredEntry ==
  /\ mode = "headers"
  /\ cur \in DOMAIN cache
  /\ now > ExpiresAt(cache[cur])
  /\ cache[cur].etag # NoneStr
  /\ cache[cur].last_modified = NoneStr
  /\ DOMAIN ret.headers = {"If-None-Match"}
  /\ ret.headers["If-None-Match"] = cache[cur].etag

\* a record Event(...) and is_future accept: an object whose date is a string
SoundRecord(data) == IsMapping(data) /\ data.date # None

\* the events of the sound records of a payload that are not in the past
SoundFutureEvents(source, records, t) ==
  LET sound == SelectSeq(records, SoundRecord)
  IN FilterFuture([k \in 1..Len(sound) |-> RecordToEvent(source, sound[k])], t)

\* C21: when scrape() got a payload with a sound record in it, run() returns
\* and stores the events of every sound record of it that is not in the
\* past, whatever the other records of the payload are.
MalformedRecordSkippedAlone ==
  [][(/\ RunEnds
      /\ fetch_out'.kind = "json"
      /\ \E k \in 1..Len(fetch_out'.records) : SoundRecord(fetch_out'.records[k]))
       => /\ run_ret' = SoundFutureEvents(cur, fetch_out'.records, now)
          /\ cur \in DOMAIN cache'
          /\ cache'[cur].events = run_ret']_vars

\* C22: run_all_scrapers called with a list of sources works on the known
\* sources of that list and on no other, also when the list is empty or
\* names no known source; called without a list it works on all of them.
WorkingSetWithinRequest ==
  [][\A force \in BOOLEAN, arg \in SourceArgs :
       RunAllCall(force, arg)
         => Range(scrapers_to_run') =
              IF arg.given THEN Range(arg.list) \cap KnownSources ELSE KnownSources]_vars

\* the moves of the last line printed about one source within a call
LogMoves ==
  {<<"unstarted", "cache_hit">>, <<"unstarted", "scraping">>,
   <<"scraping", "found">>, <<"scraping", "stale">>, <<"scraping", "empty">>}

\* the outcomes of scrape() in which nothing was fetched
FailedKinds == {"timeout", "exit_nonzero", "no_json", "http_error", "url_error"}

\* C23: within one call a source goes from unstarted to a cache hit or to
\* fetching, and from fetching to exactly one end; its entry is replaced
\* only when the fetch gave a payload, is left as it was when the fetch
\* failed, and changes in its timestamp alone when the fetch reported
\* "not modified".
SourceStateMachine ==
  [][/\ pc' # "idle" =>
          \A s \in ScraperSources :
            log'[s] # log[s] => <<log[s].tag, log'[s].tag>> \in LogMoves
     /\ RunEnds =>
          /\ fetch_out'.kind \in FailedKinds => cache' = cache
          /\ fetch_out'.kind = "not_modified" =>
                /\ DOMAIN cache' = DOMAIN cache
                /\ \A s \in DOMAIN cache :
                     cache'[s] = IF s = cur THEN [cache[s] EXCEPT !.scraped_at = now]
                                 ELSE cache[s]]_vars

\* C24: in one call of run_all_scrapers scrape() is called at most once for
\* a source, and only for a source of scrapers_needed; when the scraping loop
\* is over it has been called exactly once for each of them, failed or not,
\* and not at all for a source served from the store.
OneFetchPerSource ==
  mode = "run_all" =>
    /\ \A s \in ScraperSources :
         /\ fetched[s] <= 1
         /\ fetched[s] = 1 => s \in Range(scrapers_needed)
         /\ log[s].tag = "cache_hit" => fetched[s] = 0
    /\ pc \in {"merge", "done"} =>
         \A s \in Range(scrapers_needed) : fetched[s] = 1

\* the scraping loop is over: vmfa was fetched once and the fetch timed out,
\* visarts was served from the store
FailedFetchNotRepeated ==
  /\ mode = "run_all"
  /\ pc = "merge"
  /\ fetch_out.kind = "timeout"
  /\ cur = "vmfa"
  /\ fetched["vmfa"] = 1
  /\ log["visarts"].tag = "cache_hit"
  /\ fetched["visarts"] = 0

\* the working sources that are not in scrapers_needed, in order
ServedSources == SelectSeq(scrapers_to_run, LAMBDA s : s \notin Range(scrapers_needed))

\* C25: in run_all_scrapers no scrape() is called while the partition loop
\* runs; when the scraping loop runs, every working source is either in
\* scrapers_needed or was served by the lookup, and cached_events is the
\* events of the served sources' entries, which the scraping loop leaves
\* alone and which end the list that is merged.
PartitionBeforeFetch ==
  /\ [](mode = "run_all" =>
         /\ pc \in {"invalidate", "partition"} =>
              \A s \in ScraperSources : fetched[s] = 0
         /\ pc \in {"scrape", "fetching", "merge"} =>
              /\ \A s \in Range(ServedSources) :
                   log[s].tag = "cache_hit" /\ fetched[s] = 0
              /\ cached_events = ServedFromStore(ServedSources, cache)
         /\ pc = "merge" =>
              /\ Len(all_events) >= Len(cached_events)
              /\ SubSeq(all_events, Len(all_events) - Len(cached_events) + 1,
                        Len(all_events)) = cached_events)
  /\ [][(mode = "run_all" /\ pc \in {"scrape", "fetching"})
          => /\ cached_events' = cached_events
             /\ \A s \in Range(ServedSources) : cache'[s] = cache[s]]_vars

\* the first working source is being fetched for the first time in the call
\* and the second one has been served from the store already
LaterSourceServedBeforeFetch ==
  /\ mode = "run_all"
  /\ pc = "fetching"
  /\ scrapers_to_run = <<"visarts", "vmfa">>
  /\ cur = "visarts"
  /\ \A s \in ScraperSources : fetched[s] = 0
  /\ log["vmfa"].tag = "cache_hit"
  /\ cached_events # <<>>

\* the last lines run() prints about a source it has finished with
RunFinished == {"found", "stale", "empty"}

FetchCarriesValidators ==
  [][(RunEnds /\ cur \in DOMAIN cache)
       => LET h == fetch_out'.headers
          IN /\ cache[cur].etag # NoneStr =>
                  ("If-None-Match" \in DOMAIN h /\ h["If-None-Match"] = cache[cur].etag)
             /\ cache[cur].last_modified # NoneStr =>
                  ("If-Modified-Since" \in DOMAIN h
                     /\ h["If-Modified-Since"] = cache[cur].last_modified)]_vars

\* C28: on a store that began empty and is written by run_all_scrapers
\* alone, no entry has an etag or a last_modified, get_http_headers gives
\* no header for any source, and get_stats reports has_etag false for every
\* entry.
RunnerWritesNoValidators ==
  /\ \A s \in DOMAIN cache :
       /\ cache[s].etag = NoneStr
       /\ cache[s].last_modified = NoneStr
       /\ ~GetStats(cache, now).sources[s].has_etag
  /\ \A s \in ScraperSources : HttpHeaders(cache, s, now) = NoHeaders
  /\ disk.state = "complete" =>
       \A s \in DOMAIN disk.data :
         disk.data[s].etag = NoneStr /\ disk.data[s].last_modified = NoneStr

\* every configured source has an entry a fetch wrote, one of them with an
\* event and expired by now
FetchedEntriesHeld ==
  /\ pc = "idle"
  /\ DOMAIN cache = KnownSources
  /\ \E s \in DOMAIN cache : cache[s].events # <<>> /\ IsExpired(cache[s], now)
  /\ \E s \in DOMAIN cache : cache[s].scraped_at > 0

\* C29: in run_all_scrapers with force_refresh, a working source whose fetch
\* fails (scrape() got nothing, or run() went through its except branch)
\* gives no event to the call and has no entry when its run() ends, whatever
\* it held when the call began.
ForcedFailedFetchLeavesNothing ==
  [][(/\ mode = "run_all"
      /\ force_refresh
      /\ RunEnds
      /\ (fetch_out'.kind \in FailedKinds \/ log'[cur].tag \in {"stale", "empty"}))
       => /\ run_ret' = <<>>
          /\ cur \notin DOMAIN cache']_vars

\* C4: a call of _save that fails ends the call in progress with the error,
\* and no call returns normally while the store holds an entry the file
\* does not.
WriteFailureIsFatal ==
  /\ []((pc = "done" /\ ret.status = "returned") => EveryEntryDurable)
  /\ [][wfails' > wfails => (pc' = "done" /\ ret'.status = "raised")]_vars

====
